---------------------------- MODULE Spec2Model ----------------------------
(***************************************************************************)
(* A model of the three TSP solvers of this repository (tsp_brute_force,   *)
(* tsp_approx, tsp_genetic) and of the distance model they share           *)
(* (tsp_utils).                                                            *)
(*                                                                         *)
(* Conventions.                                                            *)
(*  - A coordinate map (a Python dict) is the sequence of its items in     *)
(*    insertion order: << <<id, <<x, y>>>>, ... >>, ids distinct.           *)
(*  - A coordinate is a dyadic rational, held as an integer number of      *)
(*    units of 1/Scale (Scale = 2^CoordBits), so every value is an exact   *)
(*    float and round() meets exact halves.                                *)
(*  - A Python list is a sequence; list index i is position i + 1.         *)
(*  - float('inf') is Inf, None (for a tour) is None.                      *)
(*  - time.time() reads the variable now, which Tick advances.             *)
(*  - The process-wide generator of module random is the variable rng; its *)
(*    Mersenne Twister is replaced by a small linear congruential          *)
(*    generator, which keeps what the solver relies on: the sequence of    *)
(*    draws is a function of the seed alone.                               *)
(***************************************************************************)
EXTENDS Integers, Sequences, FiniteSets, TLC

VARIABLES alg,          \* what is called: "BF", "Approx", "LS" or "crossover"
          coordinates,  \* the coordinate map passed to the solver
          cutoff_time,  \* the cutoff passed to the solver
          seed,         \* the seed passed to the solver (used by "LS")
          now,          \* the wall clock
          start_time,   \* the solver's start_time local
          pc,           \* the position of the call
          bf,           \* locals of tsp_brute_force.solve_tsp
          ap,           \* locals of tsp_approx.solve_tsp
          ga,           \* locals of tsp_genetic.solve_tsp
          rng,          \* state of the process-wide random generator
          ret,          \* the (tour, distance) pair the call returned
          first,        \* what an earlier call with the same arguments returned
          xo            \* a call of crossover with a given segment

vars == <<alg, coordinates, cutoff_time, seed, now, start_time, pc, bf, ap,
          ga, rng, ret, first, xo>>

---------------------------------------------------------------------------
(* Bounds of the model.                                                    *)

\* coordinates are multiples of 1 / 2^CoordBits
CoordBits == 2
\* the clock is followed for MaxElapsed ticks after a call starts
MaxElapsed == 2
\* cutoffs are 1 .. MaxCutoff ticks (one of MaxElapsed or more never fires)
MaxCutoff == 1
\* seeds are 1 .. MaxSeed
MaxSeed == 2
\* the clock of a twice-called solver stops before this generation
MaxTwinGen == 2
\* crossover is tried on tours of 2 .. MaxXN cities
MaxXN == 4
\* a run followed for termination starts at most MaxGeneration generations
MaxGeneration == 100

Scale == 2 ^ CoordBits

---------------------------------------------------------------------------
(* Values.                                                                 *)

Inf == -1
None == << -1 >>
\* None where the code holds an index or a vertex (parent[i], child[i])
Nil == -2

\* a faulty variant of the comparison: a <= b in place of a < b
LessOrEqual(a, b) == b = Inf \/ a <= b

\* a < b for a finite a and a b that may be float('inf')
LessThan(a, b) == b = Inf \/ a < b

---------------------------------------------------------------------------
(* tsp_utils: the distance model.                                          *)

\* round(math.sqrt(s) / Scale) for an integer s >= 0, searched upwards from r:
\* the first r with sqrt(s)/Scale < r + 1/2, and at an exact half the even
\* neighbour (Python 3 rounds half to even).
RECURSIVE RoundFrom(_, _)
RoundFrom(s, r) ==
    IF 4 * s < Scale * Scale * (2 * r + 1) * (2 * r + 1) THEN r
    ELSE IF 4 * s = Scale * Scale * (2 * r + 1) * (2 * r + 1)
         THEN (IF r % 2 = 0 THEN r ELSE r + 1)
         ELSE RoundFrom(s, r + 1)

euclidean_distance(coord1, coord2) ==
    LET dx == coord2[1] - coord1[1]
        dy == coord2[2] - coord1[2]
    IN  RoundFrom(dx * dx + dy * dy, 0)

\* coordinates[v]
Lookup(coords, v) ==
    coords[CHOOSE i \in 1..Len(coords) : coords[i][1] = v][2]

\* list(coordinates.keys())
Keys(coords) == [i \in 1..Len(coords) |-> coords[i][1]]

RECURSIVE SumConsecutive(_, _, _)
SumConsecutive(tour, coords, i) ==
    IF i >= Len(tour) THEN 0
    ELSE euclidean_distance(Lookup(coords, tour[i]), Lookup(coords, tour[i + 1]))
         + SumConsecutive(tour, coords, i + 1)

\* a faulty variant of calculate_tour_distance: the closing edge is left out
OpenPathDistance(tour, coords) ==
    IF Len(tour) < 2 THEN 0
    ELSE SumConsecutive(tour, coords, 1)

calculate_tour_distance(tour, coords) ==
    IF Len(tour) < 2 THEN 0
    ELSE SumConsecutive(tour, coords, 1)
         + euclidean_distance(Lookup(coords, tour[Len(tour)]),
                              Lookup(coords, tour[1]))

---------------------------------------------------------------------------
(* Built-ins the solvers call.                                             *)

RECURSIVE InsertSorted(_, _)
InsertSorted(s, x) ==
    IF s = << >> THEN << x >>
    ELSE IF x < Head(s) THEN << x >> \o s
    ELSE << Head(s) >> \o InsertSorted(Tail(s), x)

RECURSIVE sorted(_)
sorted(s) == IF s = << >> THEN << >>
             ELSE InsertSorted(sorted(Tail(s)), Head(s))

Reverse(s) == [i \in 1..Len(s) |-> s[Len(s) + 1 - i]]

\* a faulty variant of the swap: the second assignment is lost
OverwriteAt(s, i, j) == [s EXCEPT ![i] = s[j]]

SwapAt(s, i, j) == [s EXCEPT ![i] = s[j], ![j] = s[i]]

Max(S) == CHOOSE x \in S : \A y \in S : y <= x
Min(S) == CHOOSE x \in S : \A y \in S : x <= y

\* What itertools.permutations yields after p (its input is sorted and has
\* distinct elements, so the order is lexicographic), None after the last.
NextPerm(p) ==
    LET n == Len(p)
        asc == {i \in 1..(n - 1) : p[i] < p[i + 1]}
    IN  IF asc = {} THEN None
        ELSE LET i == Max(asc)
                 j == Max({k \in (i + 1)..n : p[k] > p[i]})
                 q == SwapAt(p, i, j)
             IN  [k \in 1..n |-> IF k <= i THEN q[k] ELSE q[n + i + 1 - k]]

---------------------------------------------------------------------------
(* The inputs.  Coordinates are in units of 1/Scale.                       *)

Item(id, x, y) == << id, << x, y >> >>

Empty == << >>
Single == << Item(7, 4, 8) >>
Pair == << Item(2, 0, 0), Item(1, 12, 16) >>
Coincident == << Item(1, 4, 4), Item(2, 4, 4), Item(3, 4, 4) >>
\* the four corners of a 10 x 10 square for CoordBits = 2, keys supplied in
\* ring order, in another order, and assigned to the corners crosswise
Square == << Item(1, 0, 0), Item(2, 0, 40), Item(3, 40, 40), Item(4, 40, 0) >>
SquareShuffled ==
    << Item(3, 40, 40), Item(1, 0, 0), Item(4, 40, 0), Item(2, 0, 40) >>
SquareCrossed ==
    << Item(4, 0, 40), Item(1, 0, 0), Item(2, 40, 40), Item(3, 40, 0) >>
\* a centre and the corners of a small square around it, the corners numbered
\* diagonal by diagonal
Star == << Item(1, 1, 1), Item(2, 0, 0), Item(3, 2, 2), Item(4, 2, 0),
           Item(5, 0, 2) >>
StarWide == << Item(1, 5, 5), Item(2, 0, 0), Item(3, 10, 10), Item(4, 10, 0),
               Item(5, 0, 10) >>
Line == << Item(1, 0, 0), Item(2, 12, 0), Item(3, 4, 0), Item(4, 8, 0) >>

\* seven points, no two tours of them alike in shape
Seven == << Item(1, 0, 0), Item(2, 28, 4), Item(3, 8, 20), Item(4, 36, 24),
            Item(5, 16, 8), Item(6, 4, 36), Item(7, 24, 32) >>

\* nine points whose best tour comes late in the enumeration
Nine == << Item(1, 12, 16), Item(2, 13, 8), Item(3, 14, 10), Item(4, 0, 2),
           Item(5, 15, 13), Item(6, 5, 13), Item(7, 5, 16), Item(8, 16, 16),
           Item(9, 5, 8) >>
\* two clusters with the identifiers alternating between them
TwoClusters == << Item(1, 0, 0), Item(2, 40, 0), Item(3, 4, 0),
                  Item(4, 44, 0), Item(5, 0, 4), Item(6, 40, 4) >>
\* eleven points: the smallest map whose population exceeds fifty tours
Eleven == << Item(1, 0, 0), Item(2, 28, 4), Item(3, 8, 20), Item(4, 36, 24),
             Item(5, 16, 8), Item(6, 4, 36), Item(7, 24, 32), Item(8, 40, 12),
             Item(9, 12, 28), Item(10, 32, 40), Item(11, 20, 16) >>
GAInstances == {Empty, Single, Pair, Seven, Eleven}

SmallInstances == {Empty, Single, Pair, Coincident, Square, SquareShuffled,
                   SquareCrossed, Star, StarWide, Line, TwoClusters}

Cutoffs == 1..MaxCutoff
Seeds == 1..MaxSeed

\* it is the permutation the iterator yields next, perm the loop variable,
\* stop the way the loop was left
NoBF == [vertices |-> << >>, it |-> None, perm |-> None, checked |-> 0,
         best_tour |-> None, best_distance |-> Inf, stop |-> "none"]
NoRet == [tour |-> None, cost |-> Inf]
\* the seed argument of a call that passes none
NoSeed == 0
NoFirst == [tour |-> None, cost |-> Inf, generation |-> 0, stop |-> "none"]
NoXO == [parent1 |-> << >>, parent2 |-> << >>, start |-> 0, length |-> 0,
         child |-> None]

---------------------------------------------------------------------------
(* The wall clock.                                                         *)

Elapsed == now - start_time

Tick ==
    /\ pc \in {"bf_loop", "ga_loop"}
    /\ Elapsed < MaxElapsed
    /\ now' = now + 1
    /\ UNCHANGED <<alg, coordinates, cutoff_time, seed, start_time, pc, bf,
                   ap, ga, rng, ret, first, xo>>

---------------------------------------------------------------------------
(* tsp_brute_force.solve_tsp                                               *)

check_interval == 10000

BFStart ==
    /\ pc = "start" /\ alg = "BF"
    /\ start_time' = now
    /\ LET vertices == sorted(Keys(coordinates))
       IN  IF Len(vertices) = 0
           THEN /\ ret' = [tour |-> << >>, cost |-> 0]
                /\ pc' = "done"
                /\ bf' = bf
           ELSE IF Len(vertices) = 1
           THEN /\ ret' = [tour |-> vertices, cost |-> 0]
                /\ pc' = "done"
                /\ bf' = bf
           ELSE /\ bf' = [NoBF EXCEPT !.vertices = vertices,
                                       !.it = Tail(vertices)]
                /\ pc' = "bf_loop"
                /\ ret' = ret
    /\ UNCHANGED <<alg, coordinates, cutoff_time, seed, now, ap, ga, rng,
                   first, xo>>

\* the for loop finds its iterator exhausted
BFLoopEnd ==
    /\ pc = "bf_loop" /\ bf.it = None
    /\ bf' = [bf EXCEPT !.stop = "exhausted"]
    /\ pc' = "bf_after"
    /\ UNCHANGED <<alg, coordinates, cutoff_time, seed, now, start_time, ap,
                   ga, rng, ret, first, xo>>

\* a faulty variant of BFPolls: every iteration looks at the clock
BFPollsAlways(c) == c >= 1

\* whether the iteration that takes candidate number c looks at the clock
BFPolls(c) == c = 1 \/ c % check_interval = 0

\* an iteration that looks at the clock, finds the cutoff exceeded and breaks
BFCutoff ==
    /\ pc = "bf_loop" /\ bf.it # None
    /\ BFPolls(bf.checked + 1)
    /\ Elapsed > cutoff_time
    /\ bf' = [bf EXCEPT !.it = NextPerm(bf.it), !.perm = bf.it,
                         !.checked = bf.checked + 1, !.stop = "cutoff"]
    /\ pc' = "bf_after"
    /\ UNCHANGED <<alg, coordinates, cutoff_time, seed, now, start_time, ap,
                   ga, rng, ret, first, xo>>

\* a faulty variant of BFEvaluate: every candidate replaces the best one
BFEvaluateLast ==
    /\ pc = "bf_loop" /\ bf.it # None
    /\ ~ (BFPolls(bf.checked + 1) /\ Elapsed > cutoff_time)
    /\ LET tour == << bf.vertices[1] >> \o bf.it
       IN  bf' = [bf EXCEPT
                    !.it = NextPerm(bf.it),
                    !.perm = bf.it,
                    !.checked = bf.checked + 1,
                    !.best_distance = calculate_tour_distance(tour, coordinates),
                    !.best_tour = tour]
    /\ UNCHANGED <<alg, coordinates, cutoff_time, seed, now, start_time, pc,
                   ap, ga, rng, ret, first, xo>>

\* an iteration that goes on to evaluate its candidate
BFEvaluate ==
    /\ pc = "bf_loop" /\ bf.it # None
    /\ ~ (BFPolls(bf.checked + 1) /\ Elapsed > cutoff_time)
    /\ LET tour == << bf.vertices[1] >> \o bf.it
           distance == calculate_tour_distance(tour, coordinates)
           better == LessThan(distance, bf.best_distance)
       IN  bf' = [bf EXCEPT
                    !.it = NextPerm(bf.it),
                    !.perm = bf.it,
                    !.checked = bf.checked + 1,
                    !.best_distance = IF better THEN distance ELSE @,
                    !.best_tour = IF better THEN tour ELSE @]
    /\ UNCHANGED <<alg, coordinates, cutoff_time, seed, now, start_time, pc,
                   ap, ga, rng, ret, first, xo>>

\* a faulty variant of BFReturn: the fallback tour whatever was found
BFReturnSorted ==
    /\ pc = "bf_after"
    /\ ret' = [tour |-> bf.vertices,
               cost |-> calculate_tour_distance(bf.vertices, coordinates)]
    /\ pc' = "done"
    /\ UNCHANGED <<alg, coordinates, cutoff_time, seed, now, start_time, bf,
                   ap, ga, rng, first, xo>>

BFReturn ==
    /\ pc = "bf_after"
    /\ ret' = IF bf.best_tour = None
              THEN [tour |-> bf.vertices,
                    cost |-> calculate_tour_distance(bf.vertices, coordinates)]
              ELSE [tour |-> bf.best_tour, cost |-> bf.best_distance]
    /\ pc' = "done"
    /\ UNCHANGED <<alg, coordinates, cutoff_time, seed, now, start_time, bf,
                   ap, ga, rng, first, xo>>

---------------------------------------------------------------------------
(* tsp_approx.solve_tsp                                                    *)

NoAP == [vertices |-> << >>, parent |-> << >>, key |-> << >>,
         in_mst |-> << >>, iter |-> 0]

\* vertex indices 0 .. n-1 of the sorted vertex list
Indices(vertices) == 0..(Len(vertices) - 1)

\* coordinates[idx_to_id[i]]
CoordOfIdx(vertices, coords, i) == Lookup(coords, vertices[i + 1])

ApproxStart ==
    /\ pc = "start" /\ alg = "Approx"
    /\ LET vertices == sorted(Keys(coordinates))
           n == Len(vertices)
       IN  IF Len(coordinates) = 0
           THEN /\ ret' = [tour |-> << >>, cost |-> 0]
                /\ pc' = "done"
                /\ ap' = ap
           ELSE IF n = 1
           THEN /\ ret' = [tour |-> vertices, cost |-> 0]
                /\ pc' = "done"
                /\ ap' = ap
           ELSE /\ ap' = [vertices |-> vertices,
                          parent |-> [i \in Indices(vertices) |-> Nil],
                          key |-> [i \in Indices(vertices) |->
                                     IF i = 0 THEN 0 ELSE Inf],
                          in_mst |-> [i \in Indices(vertices) |-> FALSE],
                          iter |-> 0]
                /\ pc' = "ap_prim"
                /\ ret' = ret
    /\ UNCHANGED <<alg, coordinates, cutoff_time, seed, now, start_time, bf,
                   ga, rng, first, xo>>

\* the scan for the vertex outside the tree with the least key: indices in
\* ascending order, a strict comparison, -1 when there is none
RECURSIVE MinKeyScan(_, _, _, _, _)
MinKeyScan(key, in_mst, i, min_val, u_idx) ==
    IF i \notin DOMAIN key THEN u_idx
    ELSE IF ~ in_mst[i] /\ key[i] # Inf /\ LessThan(key[i], min_val)
         THEN MinKeyScan(key, in_mst, i + 1, key[i], i)
         ELSE MinKeyScan(key, in_mst, i + 1, min_val, u_idx)

\* a faulty variant of PrimRelax: the test "weight < key[v]" is lost, so the
\* vertex that joined last takes over every vertex outside the tree
PrimRelaxAlways(a, coords, u_idx) ==
    LET in_mst == [a.in_mst EXCEPT ![u_idx] = TRUE]
        weight(v) == euclidean_distance(CoordOfIdx(a.vertices, coords, u_idx),
                                        CoordOfIdx(a.vertices, coords, v))
    IN  [a EXCEPT
           !.in_mst = in_mst,
           !.key = [v \in DOMAIN a.key |->
                      IF ~ in_mst[v] THEN weight(v) ELSE a.key[v]],
           !.parent = [v \in DOMAIN a.parent |->
                         IF ~ in_mst[v] THEN u_idx ELSE a.parent[v]],
           !.iter = a.iter + 1]

\* a faulty variant of PrimRelax: a key is set once and never lowered
PrimRelaxOnce(a, coords, u_idx) ==
    LET in_mst == [a.in_mst EXCEPT ![u_idx] = TRUE]
        weight(v) == euclidean_distance(CoordOfIdx(a.vertices, coords, u_idx),
                                        CoordOfIdx(a.vertices, coords, v))
        lower(v) == ~ in_mst[v] /\ a.key[v] = Inf
    IN  [a EXCEPT
           !.in_mst = in_mst,
           !.key = [v \in DOMAIN a.key |->
                      IF lower(v) THEN weight(v) ELSE a.key[v]],
           !.parent = [v \in DOMAIN a.parent |->
                         IF lower(v) THEN u_idx ELSE a.parent[v]],
           !.iter = a.iter + 1]

\* the locals after vertex u_idx joins the tree and the keys are relaxed
PrimRelax(a, coords, u_idx) ==
    LET in_mst == [a.in_mst EXCEPT ![u_idx] = TRUE]
        weight(v) == euclidean_distance(CoordOfIdx(a.vertices, coords, u_idx),
                                        CoordOfIdx(a.vertices, coords, v))
        lower(v) == ~ in_mst[v] /\ LessThan(weight(v), a.key[v])
    IN  [a EXCEPT
           !.in_mst = in_mst,
           !.key = [v \in DOMAIN a.key |->
                      IF lower(v) THEN weight(v) ELSE a.key[v]],
           !.parent = [v \in DOMAIN a.parent |->
                         IF lower(v) THEN u_idx ELSE a.parent[v]],
           !.iter = a.iter + 1]

\* one iteration of the loop "for _ in range(n)"
ApproxPrim ==
    /\ pc = "ap_prim"
    /\ LET n == Len(ap.vertices)
           u_idx == MinKeyScan(ap.key, ap.in_mst, 0, Inf, -1)
       IN  IF u_idx = -1
           THEN /\ ap' = ap
                /\ pc' = "ap_tour"
           ELSE /\ ap' = PrimRelax(ap, coordinates, u_idx)
                /\ pc' = IF ap.iter + 1 = n THEN "ap_tour" ELSE "ap_prim"
    /\ UNCHANGED <<alg, coordinates, cutoff_time, seed, now, start_time, bf,
                   ga, rng, ret, first, xo>>

Range(s) == {s[i] : i \in DOMAIN s}

RECURSIVE SetToSortedSeq(_)
SetToSortedSeq(S) ==
    IF S = {} THEN << >>
    ELSE LET m == Min(S) IN << m >> \o SetToSortedSeq(S \ {m})

\* mst_adj[i] after the sort: the parent of i (i >= 1) and the children of i
mst_adj(parent, i) ==
    SetToSortedSeq({parent[j] : j \in {k \in DOMAIN parent :
                                         k = i /\ k >= 1 /\ parent[k] # Nil}}
                   \cup {j \in DOMAIN parent :
                           j >= 1 /\ parent[j] = i})

\* dfs(u): tour_indices after the call; visited[v] is v \in Range(tour_indices)
RECURSIVE dfs(_, _, _), DfsNeighbours(_, _, _)
dfs(parent, u, tour_indices) ==
    DfsNeighbours(parent, mst_adj(parent, u), Append(tour_indices, u))

DfsNeighbours(parent, nbrs, tour_indices) ==
    IF nbrs = << >> THEN tour_indices
    ELSE DfsNeighbours(parent, Tail(nbrs),
                       IF Head(nbrs) \in Range(tour_indices)
                       THEN tour_indices
                       ELSE dfs(parent, Head(nbrs), tour_indices))

\* the adjacency lists, the traversal from the root, the tour and its distance
ApproxTour ==
    /\ pc = "ap_tour"
    /\ LET tour_indices == dfs(ap.parent, 0, << >>)
           tour == [k \in 1..Len(tour_indices) |->
                      ap.vertices[tour_indices[k] + 1]]
       IN  ret' = [tour |-> tour,
                   cost |-> calculate_tour_distance(tour, coordinates)]
    /\ pc' = "done"
    /\ UNCHANGED <<alg, coordinates, cutoff_time, seed, now, start_time, bf,
                   ap, ga, rng, first, xo>>

---------------------------------------------------------------------------
(* Module random.  The generator state is a number in 0 .. 65536; every    *)
(* draw steps it once and derives its value from the new state.            *)

\* the generator state after random.seed(s)
SeedState(s) == (s * 7919 + 13) % 65537

\* the generator state after one draw
Step(r) == (75 * r + 74) % 65537

\* a faulty variant of Seeded: the seed is ignored
Unseeded(r, s) == r

\* random.seed(s) applied to the generator
Seeded(r, s) == SeedState(s)

\* the integer in 0 .. k-1 that a draw leaving the generator in state r gives
Below(r, k) == (r * k) \div 65537

\* random.shuffle(tour): for i = n-1 down to 1, swap tour[i] with tour[j],
\* j drawn from 0 .. i
RECURSIVE Shuffle(_, _, _)
Shuffle(tour, i, r) ==
    IF i < 1 THEN [tour |-> tour, rng |-> r]
    ELSE LET r1 == Step(r)
             j == Below(r1, i + 1)
         IN  Shuffle(SwapAt(tour, i + 1, j + 1), i - 1, r1)

\* random.sample(range(n), 2) for n <= 21 (the pool method): the first index
\* is drawn from the pool 0 .. n-1, its place is taken by n-1, and the second
\* is drawn from the first n-1 places
Sample2(n, r) ==
    LET r1 == Step(r)
        r2 == Step(r1)
        j1 == Below(r1, n)
        j2 == Below(r2, n - 1)
    IN  [i |-> j1, j |-> IF j2 = j1 THEN n - 1 ELSE j2, rng |-> r2]

---------------------------------------------------------------------------
(* tsp_genetic                                                             *)

stagnation_threshold == 50

population_size(n) == Max({50, Min({100, n * 5})})
elite_size(n) == Max({5, population_size(n) \div 10})

\* initialize_population: the generator is seeded again, then every tour is
\* a shuffled copy of vertices
WithShuffled(vertices, done) ==
    LET sh == Shuffle(vertices, Len(vertices) - 1, done.rng)
    IN  [population |-> Append(done.population, sh.tour), rng |-> sh.rng]

RECURSIVE ShuffledTours(_, _, _)
ShuffledTours(vertices, size, done) ==
    IF Len(done.population) >= size THEN done
    ELSE ShuffledTours(vertices, size, WithShuffled(vertices, done))

initialize_population(vertices, size, s, r) ==
    ShuffledTours(vertices, size, [population |-> << >>, rng |-> Seeded(r, s)])

\* Fitness.  The code's normalized fitness of tour i is
\* (1 / (d_i + 1e-10)) / sum_j (1 / (d_j + 1e-10)).  The model holds integer
\* weights w_i with fitness_i = w_i / sum(w): 10000 \div d_i when every
\* distance is positive, and, when some distance is 0, weight 1 for the
\* tours of distance 0 and 0 for the others (their share is below 1e-10).
FitnessWeights(distances) ==
    LET fitness == IF \E i \in DOMAIN distances : distances[i] = 0
                   THEN [i \in DOMAIN distances |->
                           IF distances[i] = 0 THEN 1 ELSE 0]
                   ELSE [i \in DOMAIN distances |-> 10000 \div distances[i]]
    IN  fitness

RECURSIVE SumSeq(_, _)
SumSeq(s, i) == IF i > Len(s) THEN 0 ELSE s[i] + SumSeq(s, i + 1)

\* min(range(len(distances)), key=...): the first index of a least distance
ArgMin(distances) ==
    LET least == Min({distances[j] : j \in DOMAIN distances})
    IN  Min({j \in DOMAIN distances : distances[j] = least})

calculate_fitness(population, coords) ==
    LET distances == [i \in DOMAIN population |->
                        calculate_tour_distance(population[i], coords)]
        weights == FitnessWeights(distances)
        total_fitness == SumSeq(weights, 1)
        best_idx == ArgMin(distances)
    IN  [fitness |-> IF total_fitness > 0 THEN weights
                     ELSE [i \in DOMAIN population |-> 1],
         distances |-> distances,
         best_tour |-> population[best_idx],
         best_distance |-> distances[best_idx]]

\* cumsum after the scan of a roulette draw has added fitness[i]
RECURSIVE CumSum(_, _)
CumSum(fitness, i) == IF i = 0 THEN 0 ELSE fitness[i] + CumSum(fitness, i - 1)

Cumulative(fitness) == [i \in DOMAIN fitness |-> CumSum(fitness, i)]

\* One roulette draw: the first list index whose cumulative fitness reaches
\* the draw, and index 0 if none does.  The draw is r / 65537, read to ten
\* bits; cumulative[i] / cumulative[N] is the normalized cumsum.
Roulette(cumulative, r) ==
    LET N == Len(cumulative)
        reached == {i \in 1..N :
                      Below(r, 1024) * cumulative[N] <= cumulative[i] * 1024}
    IN  IF reached = {} THEN 0 ELSE Min(reached) - 1

\* one iteration of the loop of select_parents; done holds the pairs
\* appended so far and the generator after them
WithPair(population, cumulative, done) ==
    LET r1 == Step(done.rng)
        r2 == Step(r1)
        parent1_idx == Roulette(cumulative, r1)
        drawn2 == Roulette(cumulative, r2)
        parent2_idx == IF parent1_idx = drawn2
                       THEN (parent1_idx + 1) % Len(population)
                       ELSE drawn2
    IN  [pairs |-> Append(done.pairs, <<parent1_idx, parent2_idx>>),
         rng |-> r2]

RECURSIVE ParentPairs(_, _, _, _)
ParentPairs(population, cumulative, num_pairs, done) ==
    IF Len(done.pairs) >= num_pairs THEN done
    ELSE ParentPairs(population, cumulative, num_pairs,
                     WithPair(population, cumulative, done))

select_parents(population, fitness, num_pairs, r) ==
    ParentPairs(population, Cumulative(fitness), num_pairs,
                [pairs |-> << >>, rng |-> r])

\* what crossover yields when its while loop never ends
Diverges == << -3 >>

\* a faulty variant of SkipUsed: used cities are not skipped
SkipUsedNever(parent2, used_cities, parent2_idx, steps) == parent2_idx

\* the while loop of crossover: parent2_idx after it, Nil when it never ends
\* (after n steps over used cities the index is back where it started)
RECURSIVE SkipUsed(_, _, _, _)
SkipUsed(parent2, used_cities, parent2_idx, steps) ==
    IF steps >= Len(parent2) THEN Nil
    ELSE IF parent2[parent2_idx + 1] \in used_cities
         THEN SkipUsed(parent2, used_cities,
                       (parent2_idx + 1) % Len(parent2), steps + 1)
         ELSE parent2_idx

\* the loop "for i in range(n)" of crossover, from list index i
RECURSIVE FillFrom(_, _, _, _, _)
FillFrom(child, used_cities, parent2, parent2_idx, i) ==
    IF i >= Len(child) THEN child
    ELSE IF child[i + 1] # Nil
         THEN FillFrom(child, used_cities, parent2, parent2_idx, i + 1)
         ELSE LET idx == SkipUsed(parent2, used_cities, parent2_idx, 0)
              IN  IF idx = Nil THEN Diverges
                  ELSE FillFrom([child EXCEPT ![i + 1] = parent2[idx + 1]],
                                used_cities \cup {parent2[idx + 1]},
                                parent2, (idx + 1) % Len(parent2), i + 1)

\* the segment list indices range(start, end)
Segment(n, start, length) == {i \in 0..(n - 1) :
                                start <= i /\ i < Min({start + length, n})}

\* a faulty variant of CrossoverAt: parent2 is read from the start of the
\* segment on, not from its first city
CrossoverAtRotated(parent1, parent2, start, length) ==
    LET n == Len(parent1)
        seg == Segment(n, start, length)
        child == [k \in 1..n |-> IF (k - 1) \in seg THEN parent1[k] ELSE Nil]
        used_cities == {parent1[i + 1] : i \in seg}
    IN  FillFrom(child, used_cities, parent2, start, 0)

\* crossover once start and length are drawn
CrossoverAt(parent1, parent2, start, length) ==
    LET n == Len(parent1)
        seg == Segment(n, start, length)
        child == [k \in 1..n |-> IF (k - 1) \in seg THEN parent1[k] ELSE Nil]
        used_cities == {parent1[i + 1] : i \in seg}
    IN  FillFrom(child, used_cities, parent2, 0, 0)

crossover(parent1, parent2, r) ==
    LET n == Len(parent1)
        r1 == Step(r)
        r2 == Step(r1)
        start == Below(r1, n)
        length == 1 + Below(r2, n \div 2)
    IN  [child |-> CrossoverAt(parent1, parent2, start, length), rng |-> r2]

\* mutate with mutation_probability = 0.02: random.random() < 0.02
mutate(tour, r) ==
    LET r1 == Step(r)
    IN  IF r1 * 100 < 2 * 65537
        THEN LET sm == Sample2(Len(tour), r1)
             IN  [tour |-> SwapAt(tour, sm.i + 1, sm.j + 1), rng |-> sm.rng]
        ELSE [tour |-> tour, rng |-> r1]

\* sorted(range(len(distances)), key=...)[:num_elite]: list indices by
\* distance, equal distances in index order (the sort is stable)
RECURSIVE LeastIndices(_, _, _)
LeastIndices(distances, taken, k) ==
    IF k = 0 \/ taken = DOMAIN distances THEN << >>
    ELSE LET left == DOMAIN distances \ taken
             least == Min({distances[j] : j \in left})
             i == Min({j \in left : distances[j] = least})
         IN  << i >> \o LeastIndices(distances, taken \cup {i}, k - 1)

\* a faulty variant of apply_elitism: the first tours, whatever their cost
FirstTours(population, distances, num_elite) ==
    [k \in 1..Min({num_elite, Len(population)}) |-> population[k]]

apply_elitism(population, distances, num_elite) ==
    LET sorted_indices == LeastIndices(distances, {}, num_elite)
    IN  [k \in 1..Len(sorted_indices) |-> population[sorted_indices[k]]]

\* one iteration of the loop over parent_pairs: crossover, then mutate;
\* done holds the children appended so far and the generator after them
WithChild(population, pairs, done) ==
    LET pair == pairs[Len(done.children) + 1]
        c == crossover(population[pair[1] + 1], population[pair[2] + 1],
                       done.rng)
        m == mutate(c.child, c.rng)
    IN  [children |-> Append(done.children, m.tour), rng |-> m.rng]

RECURSIVE Children(_, _, _)
Children(population, pairs, done) ==
    IF Len(done.children) >= Len(pairs) THEN done
    ELSE Children(population, pairs, WithChild(population, pairs, done))

NoGA == [vertices |-> << >>, population |-> << >>, generation |-> 0,
         global_best_tour |-> None, global_best_distance |-> Inf,
         generations_without_improvement |-> 0,
         fitness |-> << >>, distances |-> << >>,
         best_tour |-> None, best_distance |-> Inf, stop |-> "none"]

\* solve_tsp up to the loop
GAStart ==
    /\ pc = "start" /\ alg = "LS"
    /\ LET vertices == sorted(Keys(coordinates))
           n == Len(vertices)
       IN  IF n = 0
           THEN /\ ret' = [tour |-> << >>, cost |-> 0]
                /\ pc' = "done"
                /\ UNCHANGED <<ga, rng, start_time>>
           ELSE IF n = 1
           THEN /\ ret' = [tour |-> vertices, cost |-> 0]
                /\ pc' = "done"
                /\ UNCHANGED <<ga, rng, start_time>>
           ELSE LET ip == initialize_population(vertices, population_size(n),
                                                seed, Seeded(rng, seed))
                IN  /\ ga' = [NoGA EXCEPT !.vertices = vertices,
                                          !.population = ip.population]
                    /\ rng' = ip.rng
                    /\ start_time' = now
                    /\ pc' = "ga_loop"
                    /\ ret' = ret
    /\ UNCHANGED <<alg, coordinates, cutoff_time, seed, now, bf, ap, first, xo>>

\* a faulty variant of GACutoff: the population is evaluated before the break
GACutoffEvaluated ==
    /\ pc = "ga_loop"
    /\ Elapsed > cutoff_time
    /\ LET cf == calculate_fitness(ga.population, coordinates)
       IN  ga' = [ga EXCEPT !.generation = @ + 1, !.stop = "cutoff",
                            !.fitness = cf.fitness,
                            !.distances = cf.distances,
                            !.best_tour = cf.best_tour,
                            !.best_distance = cf.best_distance]
    /\ pc' = "ga_after"
    /\ UNCHANGED <<alg, coordinates, cutoff_time, seed, now, start_time, bf,
                   ap, rng, ret, first, xo>>

\* the head of an iteration finds the cutoff exceeded and breaks
GACutoff ==
    /\ pc = "ga_loop"
    /\ Elapsed > cutoff_time
    /\ ga' = [ga EXCEPT !.generation = @ + 1, !.stop = "cutoff"]
    /\ pc' = "ga_after"
    /\ UNCHANGED <<alg, coordinates, cutoff_time, seed, now, start_time, bf,
                   ap, rng, ret, first, xo>>

\* the head of an iteration finds the cutoff not exceeded
GAContinue ==
    /\ pc = "ga_loop"
    /\ ~ (Elapsed > cutoff_time)
    /\ ga' = [ga EXCEPT !.generation = @ + 1]
    /\ pc' = "ga_eval"
    /\ UNCHANGED <<alg, coordinates, cutoff_time, seed, now, start_time, bf,
                   ap, rng, ret, first, xo>>

\* a faulty variant of Evaluated: a generation without improvement is not
\* counted
EvaluatedUncounted(g, coords) ==
    LET cf == calculate_fitness(g.population, coords)
        better == LessThan(cf.best_distance, g.global_best_distance)
    IN  [g EXCEPT
           !.fitness = cf.fitness,
           !.distances = cf.distances,
           !.best_tour = cf.best_tour,
           !.best_distance = cf.best_distance,
           !.global_best_distance = IF better THEN cf.best_distance ELSE @,
           !.global_best_tour = IF better THEN cf.best_tour ELSE @,
           !.generations_without_improvement = IF better THEN 0 ELSE @]

\* the locals after "Calculate fitness" and "Update global best"
Evaluated(g, coords) ==
    LET cf == calculate_fitness(g.population, coords)
        better == LessThan(cf.best_distance, g.global_best_distance)
    IN  [g EXCEPT
           !.fitness = cf.fitness,
           !.distances = cf.distances,
           !.best_tour = cf.best_tour,
           !.best_distance = cf.best_distance,
           !.global_best_distance = IF better THEN cf.best_distance ELSE @,
           !.global_best_tour = IF better THEN cf.best_tour ELSE @,
           !.generations_without_improvement = IF better THEN 0 ELSE @ + 1]

GAEvaluate ==
    /\ pc = "ga_eval"
    /\ ga' = Evaluated(ga, coordinates)
    /\ pc' = "ga_stag"
    /\ UNCHANGED <<alg, coordinates, cutoff_time, seed, now, start_time, bf,
                   ap, rng, ret, first, xo>>

\* "Check stagnation" finds the threshold reached and breaks
GAStagnation ==
    /\ pc = "ga_stag"
    /\ ga.generations_without_improvement >= stagnation_threshold
    /\ ga' = [ga EXCEPT !.stop = "stagnation"]
    /\ pc' = "ga_after"
    /\ UNCHANGED <<alg, coordinates, cutoff_time, seed, now, start_time, bf,
                   ap, rng, ret, first, xo>>

\* the population and the generator after elitism, selection, crossover,
\* mutation and "population = elite + children"
Bred(g, r) ==
    LET n == Len(g.vertices)
        elite == apply_elitism(g.population, g.distances, elite_size(n))
        num_children == population_size(n) - elite_size(n)
        sp == select_parents(g.population, g.fitness, num_children, r)
        ch == Children(g.population, sp.pairs,
                       [children |-> << >>, rng |-> sp.rng])
    IN  [population |-> elite \o ch.children, rng |-> ch.rng]

GABreed ==
    /\ pc = "ga_stag"
    /\ ~ (ga.generations_without_improvement >= stagnation_threshold)
    /\ LET b == Bred(ga, rng)
       IN  /\ ga' = [ga EXCEPT !.population = b.population]
           /\ rng' = b.rng
    /\ pc' = "ga_loop"
    /\ UNCHANGED <<alg, coordinates, cutoff_time, seed, now, start_time, bf,
                   ap, ret, first, xo>>

\* after the loop: the global best, or the best of the population when no
\* generation was evaluated
GAReturn ==
    /\ pc = "ga_after"
    /\ ret' = IF ga.global_best_tour = None
              THEN LET cf == calculate_fitness(ga.population, coordinates)
                   IN  [tour |-> cf.best_tour, cost |-> cf.best_distance]
              ELSE [tour |-> ga.global_best_tour,
                    cost |-> ga.global_best_distance]
    /\ pc' = "done"
    /\ UNCHANGED <<alg, coordinates, cutoff_time, seed, now, start_time, bf,
                   ap, ga, rng, first, xo>>

---------------------------------------------------------------------------

Init ==
    /\ \/ /\ alg \in {"BF", "Approx"}
          /\ coordinates \in SmallInstances
          /\ seed = NoSeed
       \/ /\ alg = "LS"
          /\ coordinates \in GAInstances
          /\ seed \in Seeds
    /\ cutoff_time \in Cutoffs
    /\ now = 0
    /\ start_time = 0
    /\ pc = "start"
    /\ bf = NoBF
    /\ ap = NoAP
    /\ ga = NoGA
    /\ rng = 0
    /\ ret = NoRet
    /\ first = NoFirst
    /\ xo = NoXO

Next ==
    \/ Tick
    \/ BFStart
    \/ BFLoopEnd
    \/ BFCutoff
    \/ BFEvaluate
    \/ BFReturn
    \/ ApproxStart
    \/ ApproxPrim
    \/ ApproxTour
    \/ GAStart
    \/ GACutoff
    \/ GAContinue
    \/ GAEvaluate
    \/ GAStagnation
    \/ GABreed
    \/ GAReturn

Spec == Init /\ [][Next]_vars

---------------------------------------------------------------------------
(* The exhaustive solver on an instance with more than check_interval      *)
(* candidates, so that the clock is polled in the middle of the search.    *)

InitLong ==
    /\ alg = "BF"
    /\ coordinates = Nine
    /\ seed = NoSeed
    /\ cutoff_time \in Cutoffs
    /\ now = 0
    /\ start_time = 0
    /\ pc = "start"
    /\ bf = NoBF
    /\ ap = NoAP
    /\ ga = NoGA
    /\ rng = 0
    /\ ret = NoRet
    /\ first = NoFirst
    /\ xo = NoXO

NextLong ==
    \/ Tick
    \/ BFStart
    \/ BFLoopEnd
    \/ BFCutoff
    \/ BFEvaluate
    \/ BFReturn

SpecLong == InitLong /\ [][NextLong]_vars

---------------------------------------------------------------------------
(* The genetic solver called twice with the same arguments.  The clock of  *)
(* each call advances only before generation MaxTwinGen starts.            *)

TickEarly ==
    /\ ga.generation < MaxTwinGen
    /\ Tick

\* the caller keeps what the first call returned and calls again; the
\* module-level generator of random is left as the first call left it
CallAgain ==
    /\ pc = "done" /\ first = NoFirst
    /\ first' = [tour |-> ret.tour, cost |-> ret.cost,
                 generation |-> ga.generation, stop |-> ga.stop]
    /\ pc' = "start"
    /\ ga' = NoGA
    /\ ret' = NoRet
    /\ UNCHANGED <<alg, coordinates, cutoff_time, seed, now, start_time, bf,
                   ap, rng, xo>>

InitTwin ==
    /\ alg = "LS"
    /\ coordinates = Seven
    /\ seed \in Seeds
    /\ cutoff_time \in Cutoffs
    /\ now = 0
    /\ start_time = 0
    /\ pc = "start"
    /\ bf = NoBF
    /\ ap = NoAP
    /\ ga = NoGA
    /\ rng = 0
    /\ ret = NoRet
    /\ first = NoFirst
    /\ xo = NoXO

NextTwin ==
    \/ TickEarly
    \/ GAStart
    \/ GACutoff
    \/ GAContinue
    \/ GAEvaluate
    \/ GAStagnation
    \/ GABreed
    \/ GAReturn
    \/ CallAgain

SpecTwin == InitTwin /\ [][NextTwin]_vars

---------------------------------------------------------------------------
(* crossover called once, on any two permutations of 1 .. n and any        *)
(* segment that randint can draw.                                          *)

RECURSIVE Perms(_)
Perms(S) ==
    IF S = {} THEN {<< >>}
    ELSE UNION {{<<x>> \o p : p \in Perms(S \ {x})} : x \in S}

InitCrossover ==
    /\ alg = "crossover"
    /\ coordinates = Empty
    /\ seed = NoSeed
    /\ cutoff_time = MaxCutoff
    /\ now = 0
    /\ start_time = 0
    /\ pc = "start"
    /\ bf = NoBF
    /\ ap = NoAP
    /\ ga = NoGA
    /\ rng = 0
    /\ ret = NoRet
    /\ first = NoFirst
    /\ xo = NoXO

CrossoverCall ==
    /\ alg = "crossover" /\ pc = "start"
    /\ \E n \in 2..MaxXN :
         \E parent1 \in Perms(1..n), parent2 \in Perms(1..n) :
            \E start \in 0..(n - 1), length \in 1..(n \div 2) :
               xo' = [parent1 |-> parent1, parent2 |-> parent2,
                      start |-> start, length |-> length,
                      child |-> CrossoverAt(parent1, parent2, start, length)]
    /\ pc' = "done"
    /\ UNCHANGED <<alg, coordinates, cutoff_time, seed, now, start_time, bf,
                   ap, ga, rng, ret, first>>

NextCrossover == CrossoverCall

SpecCrossover == InitCrossover /\ [][NextCrossover]_vars

---------------------------------------------------------------------------
(* The genetic solver as a running program: the interpreter keeps taking   *)
(* the next step of solve_tsp, while nothing obliges the clock to advance  *)
(* (a run in which it never does is a run whose cutoff never fires).  A    *)
(* run is followed for MaxGeneration generations.                          *)

GAContinueBounded ==
    /\ ga.generation < MaxGeneration
    /\ GAContinue

InitLive ==
    /\ alg = "LS"
    /\ coordinates \in GAInstances
    /\ seed \in Seeds
    /\ cutoff_time \in Cutoffs
    /\ now = 0
    /\ start_time = 0
    /\ pc = "start"
    /\ bf = NoBF
    /\ ap = NoAP
    /\ ga = NoGA
    /\ rng = 0
    /\ ret = NoRet
    /\ first = NoFirst
    /\ xo = NoXO

\* a step of solve_tsp
Running ==
    \/ GAStart
    \/ GACutoff
    \/ GAContinueBounded
    \/ GAEvaluate
    \/ GAStagnation
    \/ GABreed
    \/ GAReturn

NextLive ==
    \/ Tick
    \/ GAStart
    \/ GACutoff
    \/ GAContinueBounded
    \/ GAEvaluate
    \/ GAStagnation
    \/ GABreed
    \/ GAReturn

\* solve_tsp has a next step to take: it has not returned, and the head of
\* an iteration is within the generations followed or finds the cutoff
\* exceeded (written out, this is ENABLED <<Running>>_vars)
CanRun ==
    \/ pc \in {"start", "ga_eval", "ga_stag", "ga_after"}
    \/ pc = "ga_loop" /\ (Elapsed > cutoff_time
                             \/ ga.generation < MaxGeneration)

\* weak fairness of Running
Fairness == <>[] CanRun => []<> <<Running>>_vars

SpecLive == InitLive /\ [][NextLive]_vars /\ Fairness

---------------------------------------------------------------------------
(* Properties.                                                             *)

\* the cost of a tour, computed edge by edge: the rounded distance from each
\* position to the next, the last position leading back to the first
RECURSIVE EdgeSum(_, _, _)
EdgeSum(tour, coords, i) ==
    IF i = 0 THEN 0
    ELSE euclidean_distance(Lookup(coords, tour[i]),
                            Lookup(coords, tour[(i % Len(tour)) + 1]))
         + EdgeSum(tour, coords, i - 1)

tourCost(tour, coords) == EdgeSum(tour, coords, Len(tour))

KeySet(coords) == {coords[i][1] : i \in 1..Len(coords)}

IsPermutationOf(tour, S) ==
    /\ Len(tour) = Cardinality(S)
    /\ {tour[i] : i \in 1..Len(tour)} = S

\* the least cost over all orderings of the vertex set
OptimalCost(coords) ==
    Min({tourCost(p, coords) : p \in Perms(KeySet(coords))})

\* the rounded distances obey the triangle inequality
Metric(coords) ==
    \A a, b, c \in 1..Len(coords) :
        euclidean_distance(coords[a][2], coords[c][2])
            <= euclidean_distance(coords[a][2], coords[b][2])
               + euclidean_distance(coords[b][2], coords[c][2])

\* C1: whatever the map and whatever the cutoff does, the tour a solver
\* returns holds every key of the coordinate map exactly once and nothing
\* else.
C1_TourIsPermutation ==
    pc = "done" => IsPermutationOf(ret.tour, KeySet(coordinates))

\* the genetic solver, stopped by the cutoff after it has bred
C1_Witness ==
    /\ pc = "done" /\ alg = "LS"
    /\ ga.stop = "cutoff" /\ ga.generation > 1
    /\ Len(coordinates) > 2
    /\ IsPermutationOf(ret.tour, KeySet(coordinates))

\* C2: on every way out of every solver the returned cost is the cost of the
\* returned tour recomputed from the coordinate map: the rounded distances
\* of consecutive pairs plus the closing edge.
C2_CostIsRecomputed ==
    pc = "done" => ret.cost = tourCost(ret.tour, coordinates)

\* the genetic solver, stopped by stagnation, returns a tour of positive cost
C2_Witness ==
    /\ pc = "done" /\ alg = "LS"
    /\ ga.stop = "stagnation"
    /\ ret.cost > 0
    /\ ret.cost = tourCost(ret.tour, coordinates)

\* C3: when the cutoff does not fire the exhaustive solver returns a tour of
\* the least cost over all orderings of the vertex set, whatever the order
\* of the keys in the map.
C3_BruteForceOptimal ==
    (pc = "done" /\ alg = "BF" /\ bf.stop # "cutoff")
        => /\ ret.cost = OptimalCost(coordinates)
           /\ ret.cost = tourCost(ret.tour, coordinates)

\* the corners of the square, keys supplied out of order: four sides
C3_Witness ==
    /\ pc = "done" /\ alg = "BF" /\ bf.stop = "exhausted"
    /\ coordinates = SquareShuffled
    /\ ret.cost = 4 * euclidean_distance(Lookup(Square, 1), Lookup(Square, 2))
    /\ ret.cost = OptimalCost(Square)

\* C4, as stated: on any instance the approximation costs at most twice the
\* optimum.
C4_TwiceOptimalAnyInstance ==
    (pc = "done" /\ alg = "Approx")
        => ret.cost <= 2 * OptimalCost(coordinates)

\* C4: on an instance whose rounded distances obey the triangle inequality
\* the approximation costs at most twice the optimum.
C4_TwiceOptimalMetric ==
    (pc = "done" /\ alg = "Approx" /\ Metric(coordinates))
        => ret.cost <= 2 * OptimalCost(coordinates)

\* a metric instance on which the approximation is not optimal
C4_Witness ==
    /\ pc = "done" /\ alg = "Approx"
    /\ Len(coordinates) > 3
    /\ Metric(coordinates)
    /\ ret.cost > OptimalCost(coordinates)
    /\ ret.cost <= 2 * OptimalCost(coordinates)

\* C5, as stated: two runs of the genetic solver with the same map, cutoff
\* and seed return the same tour and the same cost, whatever generation the
\* elapsed-time check of each run fires in.
C5_SameResultWhateverTiming ==
    (pc = "done" /\ first # NoFirst)
        => (ret.tour = first.tour /\ ret.cost = first.cost)

\* C5: two runs of the genetic solver with the same map, cutoff and seed that
\* leave the loop in the same generation for the same reason return the same
\* tour and the same cost.
C5_SameResultSameStop ==
    (pc = "done" /\ first # NoFirst
        /\ ga.generation = first.generation /\ ga.stop = first.stop)
        => (ret.tour = first.tour /\ ret.cost = first.cost)

\* both runs were cut off at the head of the same generation, after breeding
C5_Witness ==
    /\ pc = "done" /\ first # NoFirst
    /\ ga.stop = "cutoff" /\ first.stop = "cutoff"
    /\ ga.generation = first.generation /\ ga.generation > 1
    /\ ret.tour = first.tour /\ ret.cost = first.cost

\* a < b in lexicographic order, for sequences of one length
LexLess(a, b) ==
    \E i \in 1..Len(a) :
        /\ a[i] < b[i]
        /\ \A j \in 1..(i - 1) : a[j] = b[j]

\* the tours evaluated before the iteration that found the cutoff exceeded
EvaluatedTours ==
    {<< bf.vertices[1] >> \o p :
        p \in {q \in Perms(KeySet(coordinates) \ {bf.vertices[1]}) :
                 LexLess(q, bf.perm)}}

\* C6: stopped by the cutoff, the exhaustive solver returns a tour of least
\* cost among the candidates evaluated so far (one less than the candidates
\* drawn); when none was evaluated it returns the vertices in sorted order
\* with the cost of that tour.
C6_CutoffReturnsBestSoFar ==
    (pc = "done" /\ alg = "BF" /\ bf.stop = "cutoff")
        => IF bf.checked = 1
           THEN /\ ret.tour = sorted(Keys(coordinates))
                /\ ret.cost = tourCost(ret.tour, coordinates)
           ELSE LET evaluated == EvaluatedTours
                IN  /\ Cardinality(evaluated) = bf.checked - 1
                    /\ ret.tour \in evaluated
                    /\ ret.cost = tourCost(ret.tour, coordinates)
                    /\ \A t \in evaluated :
                           ret.cost <= tourCost(t, coordinates)

\* cut off at the first poll after the first: the best of the candidates
\* before it is not the sorted order
C6_Witness ==
    /\ pc = "done" /\ alg = "BF" /\ bf.stop = "cutoff"
    /\ bf.checked = check_interval
    /\ ret.tour # sorted(Keys(coordinates))
    /\ ret.cost < tourCost(sorted(Keys(coordinates)), coordinates)

\* C7: for permutation parents of n >= 2 cities, any start in 0 .. n-1 and
\* any length in 1 .. n/2, crossover ends and its child has n entries, no
\* empty slot and no duplicate: it is a permutation of the same cities.
C7_CrossoverPermutation ==
    (alg = "crossover" /\ pc = "done")
        => /\ xo.child # Diverges
           /\ Len(xo.child) = Len(xo.parent1)
           /\ \A i \in 1..Len(xo.child) : xo.child[i] # Nil
           /\ IsPermutationOf(xo.child, {xo.parent1[i] : i \in 1..Len(xo.parent1)})

\* a segment that would run past the end of the tour
C7_Witness ==
    /\ alg = "crossover" /\ pc = "done"
    /\ xo.start + xo.length > Len(xo.parent1)
    /\ xo.parent1 # xo.parent2
    /\ IsPermutationOf(xo.child, {xo.parent1[i] : i \in 1..Len(xo.parent1)})

\* the costs of the tours of a population, recomputed
PopulationCosts(population) ==
    [i \in DOMAIN population |-> tourCost(population[i], coordinates)]

\* the distances the solver holds are those of the population it holds
PopulationEvaluated ==
    ga.distances = PopulationCosts(ga.population)

\* a is a cost strictly below b, where either may be infinite
StrictlyLower(a, b) == a # Inf /\ (b = Inf \/ a < b)

LeastOf(costs) == Min({costs[i] : i \in DOMAIN costs})

\* C8, as stated: the cutoff is checked after the population is evaluated,
\* so the solver never stops with a population that was bred but not
\* evaluated.
C8_NeverStopsUnevaluated ==
    (alg = "LS" /\ pc = "done" /\ ga.generation > 1) => PopulationEvaluated

\* C8: every generation runs in the order CHECK_CUTOFF, EVALUATE,
\* CHECK_STAGNATION, SELECT/BREED, REPLACE.  The cutoff is checked once, at
\* the head of the generation and before the population is evaluated; the
\* stagnation limit is checked once, after the evaluation and before
\* breeding.  A stop for stagnation leaves an evaluated population; a stop
\* for the cutoff leaves the population as the last REPLACE (or INIT) made
\* it, with the distances of the generation before.
C8_GenerationOrder ==
    /\ []((alg = "LS" /\ ga.stop = "stagnation") => PopulationEvaluated)
    /\ []((alg = "LS" /\ ga.stop = "cutoff" /\ ga.generation = 1)
             => ga.distances = << >>)
    /\ [][alg = "LS" =>
            /\ (pc = "ga_loop" /\ pc' # "ga_loop")
                  => /\ ga'.generation = ga.generation + 1
                     /\ ga'.population = ga.population
                     /\ ga'.distances = ga.distances
                     /\ IF Elapsed > cutoff_time
                        THEN pc' = "ga_after" /\ ga'.stop = "cutoff"
                        ELSE pc' = "ga_eval" /\ ga'.stop = "none"
            /\ pc = "ga_eval"
                  => /\ pc' = "ga_stag"
                     /\ ga'.generation = ga.generation
                     /\ ga'.population = ga.population
                     /\ ga'.distances = PopulationCosts(ga.population)
            /\ pc = "ga_stag"
                  => /\ ga'.generation = ga.generation
                     /\ ga'.distances = ga.distances
                     /\ IF ga.generations_without_improvement
                              >= stagnation_threshold
                        THEN /\ pc' = "ga_after" /\ ga'.stop = "stagnation"
                             /\ ga'.population = ga.population
                        ELSE pc' = "ga_loop" /\ ga'.stop = "none"
            /\ (ga.stop = "none" /\ ga'.stop # "none")
                  => pc \in {"ga_loop", "ga_stag"}
      ]_vars

\* cut off at the head of a later generation: the population bred in the
\* generation before was never evaluated
C8_Witness ==
    /\ alg = "LS" /\ pc = "done"
    /\ ga.stop = "cutoff" /\ ga.generation > 1
    /\ ~ PopulationEvaluated

\* C9: the global best cost never increases.  An evaluation replaces it only
\* by a strictly lower best cost of the generation, and then the stagnation
\* counter becomes 0; otherwise the global best stays and the counter grows
\* by 1.  The solver stops for stagnation exactly when the counter reaches
\* the threshold of 50, and the counter stays within 0 .. 50.
C9_GlobalBestAndCounter ==
    /\ [](ga.generations_without_improvement \in 0..stagnation_threshold)
    /\ [][alg = "LS" =>
            /\ ~ StrictlyLower(ga.global_best_distance, ga'.global_best_distance)
            /\ pc = "ga_eval"
                  => LET b == LeastOf(PopulationCosts(ga.population))
                     IN  IF StrictlyLower(b, ga.global_best_distance)
                         THEN /\ ga'.global_best_distance = b
                              /\ tourCost(ga'.global_best_tour, coordinates) = b
                              /\ ga'.generations_without_improvement = 0
                         ELSE /\ ga'.global_best_distance
                                    = ga.global_best_distance
                              /\ ga'.global_best_tour = ga.global_best_tour
                              /\ ga'.generations_without_improvement
                                    = ga.generations_without_improvement + 1
            /\ (pc \in {"ga_loop", "ga_stag", "ga_after"})
                  => /\ ga'.global_best_distance = ga.global_best_distance
                     /\ ga'.global_best_tour = ga.global_best_tour
                     /\ ga'.generations_without_improvement
                           = ga.generations_without_improvement
            /\ pc = "ga_stag"
                  => (ga'.stop = "stagnation"
                        <=> ga.generations_without_improvement
                               = stagnation_threshold)
            /\ (ga.stop = "none" /\ ga'.stop = "stagnation") => pc = "ga_stag"
      ]_vars

\* a stop for stagnation after an improvement later than the first
\* generation had reset the counter
C9_Witness ==
    /\ alg = "LS" /\ pc = "done"
    /\ ga.stop = "stagnation"
    /\ ga.generations_without_improvement = stagnation_threshold
    /\ ga.generation > stagnation_threshold + 1

\* clamp(5n, 50, 100)
Clamped(n) == IF 5 * n < 50 THEN 50 ELSE IF 5 * n > 100 THEN 100 ELSE 5 * n

\* the first k entries of a sequence
FirstOf(s, k) == [i \in 1..k |-> s[i]]

\* C10: after every REPLACE the population has clamp(5n, 50, 100) tours; its
\* first max(5, size / 10) entries are tours of the population before, with
\* the lowest costs of that population; so the best cost of the population
\* does not get worse.
C10_ReplaceKeepsElite ==
    /\ []((alg = "LS" /\ ga.population # << >>)
             => Len(ga.population) = Clamped(Len(coordinates)))
    /\ [][(alg = "LS" /\ pc = "ga_stag" /\ pc' = "ga_loop") =>
            LET size == Clamped(Len(coordinates))
                elite_count == Max({5, size \div 10})
                before == PopulationCosts(ga.population)
                after == PopulationCosts(ga'.population)
            IN  /\ Len(ga'.population) = size
                /\ \A k \in 1..elite_count :
                      \E i \in 1..size : ga'.population[k] = ga.population[i]
                /\ FirstOf(after, elite_count)
                      = FirstOf(sorted(before), elite_count)
                /\ LeastOf(after) <= LeastOf(before)
      ]_vars

\* a REPLACE on the map of eleven points, whose population is 5n tours
C10_Witness ==
    /\ alg = "LS" /\ pc = "ga_loop" /\ ga.generation > 1
    /\ Len(ga.population) = 5 * Len(coordinates)
    /\ Len(ga.population) > 50
    /\ LeastOf(PopulationCosts(ga.population)) = ga.best_distance

\* the vertex reached from v by following parent pointers k times; the root
\* 0 stays where it is
RECURSIVE Ancestor(_, _, _)
Ancestor(parent, v, k) ==
    IF k = 0 \/ v = 0 THEN v ELSE Ancestor(parent, parent[v], k - 1)

\* parent, a function on 0 .. n-1, is a spanning tree rooted at index 0: the
\* root has no parent, every other index has one, and every index reaches
\* the root
IsSpanningTree(parent, n) ==
    /\ parent[0] = Nil
    /\ \A v \in 1..(n - 1) : parent[v] \in (0..(n - 1)) \ {v}
    /\ \A v \in 1..(n - 1) : Ancestor(parent, v, n) = 0

\* the rounded distance between the vertices of sorted indices i and j
IndexWeight(coords, i, j) ==
    LET vertices == sorted(Keys(coords))
    IN  euclidean_distance(Lookup(coords, vertices[i + 1]),
                           Lookup(coords, vertices[j + 1]))

RECURSIVE TreeWeightFrom(_, _, _)
TreeWeightFrom(parent, coords, v) ==
    IF v = 0 THEN 0
    ELSE IndexWeight(coords, v, parent[v])
         + TreeWeightFrom(parent, coords, v - 1)

\* the total weight of the edges {v, parent[v]}, v = 1 .. n-1
TreeWeight(parent, coords) ==
    TreeWeightFrom(parent, coords, Len(coords) - 1)

\* every spanning tree of the complete graph on 0 .. n-1, as parent pointers
\* towards the root 0
SpanningTrees(n) ==
    {t \in [0..(n - 1) -> (0..(n - 1)) \cup {Nil}] : IsSpanningTree(t, n)}

\* C11: for n >= 2, after the Prim loop every vertex is included, the root
\* (index 0 of the sorted vertices) has no parent, every other vertex has
\* exactly one, and the parent pointers form a spanning tree whose total
\* rounded-distance weight is the least over all spanning trees.
C11_PrimBuildsMinimumSpanningTree ==
    (alg = "Approx" /\ pc \in {"ap_tour", "done"} /\ Len(coordinates) >= 2)
        => LET n == Len(coordinates)
           IN  /\ DOMAIN ap.in_mst = 0..(n - 1)
               /\ \A v \in 0..(n - 1) : ap.in_mst[v]
               /\ DOMAIN ap.parent = 0..(n - 1)
               /\ IsSpanningTree(ap.parent, n)
               /\ \A t \in SpanningTrees(n) :
                     TreeWeight(ap.parent, coordinates)
                        <= TreeWeight(t, coordinates)

\* the loop has ended on a map of four or more points with a tree that is no
\* star around the root and is lighter than some other spanning tree
C11_Witness ==
    /\ alg = "Approx" /\ pc = "ap_tour"
    /\ Len(coordinates) >= 4
    /\ \E v \in 1..(Len(coordinates) - 1) : ap.parent[v] # 0
    /\ IsSpanningTree(ap.parent, Len(coordinates))
    /\ \E t \in SpanningTrees(Len(coordinates)) :
          TreeWeight(ap.parent, coordinates) < TreeWeight(t, coordinates)

\* C12: for n >= 2 vertices and any cutoff, one that never fires included,
\* the genetic solver eventually returns.
C12_GeneticTerminates ==
    (alg = "LS" /\ pc = "start" /\ Len(coordinates) >= 2) ~> (pc = "done")

\* a run during which the clock never advanced has stopped for stagnation,
\* after more than one improvement of the global best
C12_Witness ==
    /\ alg = "LS" /\ pc = "done"
    /\ Len(coordinates) >= 2
    /\ now = start_time
    /\ ga.stop = "stagnation"
    /\ ga.generation > stagnation_threshold + 1
    /\ ga.generation <= MaxGeneration

\* candidate number c is the 1st or one whose number is a multiple of 10,000
IsPollingOrdinal(c) == c = 1 \/ c % 10000 = 0

\* C13: the exhaustive solver compares the elapsed time with the cutoff only
\* at the 1st candidate and at every candidate whose number is a multiple of
\* 10,000, before that candidate is evaluated.  So a search stopped by the
\* cutoff has evaluated 0 or 10,000k - 1 candidates, and a cutoff that
\* expires between two checks does not stop the search before the next one.
C13_PollingPoints ==
    /\ []((alg = "BF" /\ bf.stop = "cutoff")
             => LET evaluated == Cardinality(EvaluatedTours)
                IN  /\ evaluated = bf.checked - 1
                    /\ evaluated = 0 \/ (evaluated + 1) % 10000 = 0)
    /\ [][(alg = "BF" /\ pc = "bf_loop" /\ bf.it # None /\ bf' # bf) =>
            IF IsPollingOrdinal(bf.checked + 1) /\ Elapsed > cutoff_time
            THEN /\ bf'.stop = "cutoff" /\ pc' = "bf_after"
                 /\ bf'.checked = bf.checked + 1
                 /\ bf'.best_tour = bf.best_tour
                 /\ bf'.best_distance = bf.best_distance
            ELSE /\ bf'.stop = "none" /\ pc' = "bf_loop"
                 /\ bf'.checked = bf.checked + 1
                 /\ ~ StrictlyLower(bf.best_distance, bf'.best_distance)
                 /\ ~ StrictlyLower(tourCost(<< bf.vertices[1] >> \o bf.it,
                                             coordinates),
                                    bf'.best_distance)
      ]_vars

\* the cutoff has expired between two checks, the candidate before this one
\* was evaluated, and the search goes on
C13_Witness ==
    /\ alg = "BF" /\ pc = "bf_loop" /\ bf.stop = "none"
    /\ Elapsed > cutoff_time
    /\ bf.checked > 1
    /\ ~ IsPollingOrdinal(bf.checked)
    /\ ~ IsPollingOrdinal(bf.checked + 1)
    /\ bf.best_distance <= tourCost(<< bf.vertices[1] >> \o bf.perm, coordinates)

\* the position of city c in tour p
PositionIn(p, c) == CHOOSE i \in 1..Len(p) : p[i] = c

\* C14: for permutation parents the child has parent 1's cities at exactly
\* the positions of the chosen segment (positions start .. end - 1 of the
\* list, end = min(start + length, n)), and the cities at its other
\* positions, read left to right, come in the order they have in parent 2.
C14_CrossoverKeepsOrder ==
    (alg = "crossover" /\ pc = "done")
        => LET n == Len(xo.parent1)
               last == IF xo.start + xo.length < n THEN xo.start + xo.length
                       ELSE n
               inside == {i \in 1..n : xo.start < i /\ i <= last}
               outside == (1..n) \ inside
           IN  /\ inside # {}
               /\ Len(xo.child) = n
               /\ \A i \in inside : xo.child[i] = xo.parent1[i]
               /\ \A i \in outside :
                     \A j \in inside : xo.child[i] # xo.parent1[j]
               /\ \A i, j \in outside :
                     i < j => PositionIn(xo.parent2, xo.child[i])
                                 < PositionIn(xo.parent2, xo.child[j])

\* a segment of two cities strictly inside the tour, between parents that
\* differ, with a child that is neither parent
C14_Witness ==
    /\ alg = "crossover" /\ pc = "done"
    /\ xo.start > 0 /\ xo.length > 1
    /\ xo.start + xo.length < Len(xo.parent1)
    /\ xo.child # xo.parent1 /\ xo.child # xo.parent2
    /\ \A i \in (xo.start + 1)..(xo.start + xo.length) :
          xo.child[i] = xo.parent1[i]
    /\ PositionIn(xo.parent2, xo.child[1])
          < PositionIn(xo.parent2, xo.child[Len(xo.child)])

=============================================================================
